---- MODULE Spec2Model ----
(***************************************************************************)
(* Model of Lab1/lab1.c: the maximum-forward-matching segmenter            *)
(* (segment_line_in_memory), its punctuation classifier                    *)
(* (check_punctuation over PUNCTUATIONS), the UTF-8 scanner                *)
(* (get_utf8_char_len), the stopword test (is_stopword) and the frequency  *)
(* table (add_token_count over g_word_counts).                             *)
(*                                                                         *)
(* A C string is a sequence of byte values 1..255; its terminating NUL is  *)
(* implicit (CharAt gives 0 at and after the end).  Memory allocation is   *)
(* taken to succeed (lab1.c:178-181, 197-199 are the out-of-memory paths). *)
(***************************************************************************)
EXTENDS Integers, Sequences, FiniteSets, TLC

VARIABLES
    line,             \* const char *line: the sentence being segmented
    dict,             \* char **dict / dict_size: the dictionary entries
    stopwords,        \* char **stopwords / stop_count
    start,            \* size_t start: the cursor of segment_line_in_memory
    pc,               \* "loop" inside the while loop, "done" after it, "freq" for direct record calls
    seg_file,         \* the bytes written to seg_file
    g_word_counts,    \* WordCount array: sequence of [word, count], g_word_total entries
    g_word_capacity,  \* allocated slots
    g_word_total,     \* number of distinct entries
    g_word_count,     \* number of recorded tokens
    steps,            \* history: one record per loop iteration
    recorded          \* history: the tokens passed to add_token_count, in order

vars == <<line, dict, stopwords, start, pc, seg_file, g_word_counts,
          g_word_capacity, g_word_total, g_word_count, steps, recorded>>

-----------------------------------------------------------------------------
(* Program constants *)

MAX_CHINESE_BYTES == 21

\* PUNCTUATIONS[] as the compiler sees it.  Line 225 reads
\*   {""", 3}, {""", 3}, {"'", 3}, {"'", 3},
\* in ASCII quotes: "" ", 3}, {" "" concatenates to the 7-byte literal
\* ", 3}, {" with bytes = 3, followed by two entries "'" with bytes = 3.
\* The table therefore has 31 entries.
PUNCTUATIONS ==
    << [punct |-> <<239, 188, 140>>, bytes |-> 3],   \* U+FF0C fullwidth comma
       [punct |-> <<227, 128, 130>>, bytes |-> 3],   \* U+3002
       [punct |-> <<239, 188, 129>>, bytes |-> 3],   \* U+FF01
       [punct |-> <<239, 188, 159>>, bytes |-> 3],   \* U+FF1F
       [punct |-> <<239, 188, 155>>, bytes |-> 3],   \* U+FF1B
       [punct |-> <<239, 188, 154>>, bytes |-> 3],   \* U+FF1A
       [punct |-> <<44, 32, 51, 125, 44, 32, 123>>, bytes |-> 3],  \* ", 3}, {"
       [punct |-> <<39>>, bytes |-> 3],              \* "'"
       [punct |-> <<39>>, bytes |-> 3],              \* "'"
       [punct |-> <<227, 128, 142>>, bytes |-> 3],
       [punct |-> <<227, 128, 143>>, bytes |-> 3],
       [punct |-> <<227, 128, 144>>, bytes |-> 3],
       [punct |-> <<227, 128, 145>>, bytes |-> 3],
       [punct |-> <<227, 128, 138>>, bytes |-> 3],
       [punct |-> <<227, 128, 139>>, bytes |-> 3],
       [punct |-> <<227, 128, 129>>, bytes |-> 3],
       [punct |-> <<239, 188, 136>>, bytes |-> 3],
       [punct |-> <<239, 188, 137>>, bytes |-> 3],
       [punct |-> <<239, 188, 187>>, bytes |-> 3],
       [punct |-> <<239, 188, 189>>, bytes |-> 3],
       [punct |-> <<239, 189, 155>>, bytes |-> 3],
       [punct |-> <<239, 189, 157>>, bytes |-> 3],
       [punct |-> <<226, 128, 187>>, bytes |-> 3],
       [punct |-> <<40>>, bytes |-> 1],              \* (
       [punct |-> <<41>>, bytes |-> 1],              \* )
       [punct |-> <<91>>, bytes |-> 1],              \* [
       [punct |-> <<93>>, bytes |-> 1],              \* ]
       [punct |-> <<123>>, bytes |-> 1],             \* {
       [punct |-> <<125>>, bytes |-> 1],             \* }
       [punct |-> <<34>>, bytes |-> 1],              \* "
       [punct |-> <<226, 128, 157>>, bytes |-> 3] >> \* U+201D

-----------------------------------------------------------------------------
(* C string primitives *)

Min(a, b) == IF a <= b THEN a ELSE b

\* s[i] of a NUL-terminated string, i counted from 1
CharAt(s, i) == IF i <= Len(s) THEN s[i] ELSE 0

\* line + k: the string that starts k bytes into s (k <= strlen(s))
Suffix(s, k) == SubSeq(s, k + 1, Len(s))

\* strncmp(a, b, n) == 0: compare at most n bytes, stopping after a NUL
RECURSIVE StrncmpFrom(_, _, _, _)
StrncmpFrom(a, b, n, i) ==
    IF i > n THEN TRUE
    ELSE IF CharAt(a, i) # CharAt(b, i) THEN FALSE
    ELSE IF CharAt(a, i) = 0 THEN TRUE
    ELSE StrncmpFrom(a, b, n, i + 1)

strncmp_eq(a, b, n) == StrncmpFrom(a, b, n, 1)

\* the string left in a zero-filled buffer by strncpy(temp, src, n)
strncpy(src, n) == SubSeq(src, 1, Min(n, Len(src)))

-----------------------------------------------------------------------------
(* get_utf8_char_len: the masks written arithmetically for a byte 0..255 *)

And80(b) == ((b \div 128) % 2) * 128
AndE0(b) == (b \div 32) * 32
AndF0(b) == (b \div 16) * 16

\* variant: the final return gives 0
get_utf8_char_len_zero(str) ==
    LET c == CharAt(str, 1) IN
    IF And80(c) = 0 THEN 1
    ELSE IF AndE0(c) = 192 THEN 2
    ELSE IF AndF0(c) = 224 THEN 3
    ELSE 0

\* variant: the 110xxxxx test is missing
get_utf8_char_len_no2(str) ==
    LET c == CharAt(str, 1) IN
    IF And80(c) = 0 THEN 1
    ELSE IF AndF0(c) = 224 THEN 3
    ELSE 1

\* variant: a 11110xxx lead byte gives 4
get_utf8_char_len_four(str) ==
    LET c == CharAt(str, 1) IN
    IF And80(c) = 0 THEN 1
    ELSE IF AndE0(c) = 192 THEN 2
    ELSE IF AndF0(c) = 224 THEN 3
    ELSE IF AndF0(c) = 240 THEN 4
    ELSE 1

get_utf8_char_len(str) ==
    LET c == CharAt(str, 1) IN
    IF And80(c) = 0 THEN 1
    ELSE IF AndE0(c) = 192 THEN 2
    ELSE IF AndF0(c) = 224 THEN 3
    ELSE 1

-----------------------------------------------------------------------------
(* check_punctuation: the first table entry whose first `bytes` bytes       *)
(* compare equal under strncmp; the result is (return value, *len)          *)

RECURSIVE PunctScan(_, _)
PunctScan(str, i) ==
    IF i > Len(PUNCTUATIONS) THEN [ret |-> 0, len |-> 0]
    ELSE IF strncmp_eq(str, PUNCTUATIONS[i].punct, PUNCTUATIONS[i].bytes)
         THEN [ret |-> 1, len |-> PUNCTUATIONS[i].bytes]
         ELSE PunctScan(str, i + 1)

check_punctuation(str) == PunctScan(str, 1)

-----------------------------------------------------------------------------
(* is_stopword: linear scan with strcmp, i.e. membership *)

\* variant: the scan never reports a hit
is_stopword_never(token, stops) == FALSE

is_stopword(token, stops) == token \in stops

-----------------------------------------------------------------------------
(* add_token_count on the table [counts, capacity, total, count] *)

IndexOfWord(counts, token) ==
    IF \E i \in 1..Len(counts) : counts[i].word = token
    THEN CHOOSE i \in 1..Len(counts) :
            /\ counts[i].word = token
            /\ \A j \in 1..(i - 1) : counts[j].word # token
    ELSE 0

\* variant: g_word_count++ placed after the search, so only insertions count
add_token_count_distinct(t, token) ==
    LET cap == IF t.total >= t.capacity
               THEN (IF t.capacity = 0 THEN 10 ELSE t.capacity * 2)
               ELSE t.capacity
        i   == IndexOfWord(t.counts, token)
    IN  IF i > 0
        THEN [counts   |-> [t.counts EXCEPT ![i].count = @ + 1],
              capacity |-> cap,
              total    |-> t.total,
              count    |-> t.count]
        ELSE [counts   |-> Append(t.counts, [word |-> token, count |-> 1]),
              capacity |-> cap,
              total    |-> t.total + 1,
              count    |-> t.count + 1]

add_token_count(t, token) ==
    LET cap == IF t.total >= t.capacity
               THEN (IF t.capacity = 0 THEN 10 ELSE t.capacity * 2)
               ELSE t.capacity
        i   == IndexOfWord(t.counts, token)
    IN  IF i > 0
        THEN [counts   |-> [t.counts EXCEPT ![i].count = @ + 1],
              capacity |-> cap,
              total    |-> t.total,
              count    |-> t.count + 1]
        ELSE [counts   |-> Append(t.counts, [word |-> token, count |-> 1]),
              capacity |-> cap,
              total    |-> t.total + 1,
              count    |-> t.count + 1]

Table == [counts   |-> g_word_counts,
          capacity |-> g_word_capacity,
          total    |-> g_word_total,
          count    |-> g_word_count]

SetTable(t) ==
    /\ g_word_counts' = t.counts
    /\ g_word_capacity' = t.capacity
    /\ g_word_total' = t.total
    /\ g_word_count' = t.count

KeepTable == UNCHANGED <<g_word_counts, g_word_capacity, g_word_total, g_word_count>>

-----------------------------------------------------------------------------
(* The dictionary search of segment_line_in_memory: match_len from          *)
(* MAX_CHINESE_BYTES down to 1, the first length whose substring is an      *)
(* entry; 0 when none is (found stays 0)                                    *)

RECURSIVE MatchFrom(_, _, _, _)
MatchFrom(l, s, d, match_len) ==
    IF match_len <= 0 THEN 0
    ELSE IF /\ s + match_len <= Len(l)
            /\ strncpy(Suffix(l, s), match_len) \in d
         THEN match_len
         ELSE MatchFrom(l, s, d, match_len - 1)

\* variant: match_len runs upwards from 1, so the shortest entry wins
RECURSIVE MatchUp(_, _, _, _)
MatchUp(l, s, d, match_len) ==
    IF match_len > MAX_CHINESE_BYTES THEN 0
    ELSE IF /\ s + match_len <= Len(l)
            /\ strncpy(Suffix(l, s), match_len) \in d
         THEN match_len
         ELSE MatchUp(l, s, d, match_len + 1)

dict_match_shortest(l, s, d) == MatchUp(l, s, d, 1)

dict_match(l, s, d) == MatchFrom(l, s, d, MAX_CHINESE_BYTES)

\* fprintf(seg_file, "[%s]", temp)
fprintf_token(out, temp) == out \o <<91>> \o temp \o <<93>>

-----------------------------------------------------------------------------
(* Inputs: lines are concatenations of a few UTF-8 units, plus some long    *)
(* lines; dictionaries and stopword lists are small sets of words           *)

MaxUnits == 3
MaxRecords == 5

U_a      == <<97>>                   \* a
U_apos   == <<39>>                   \* '
U_lparen == <<40>>                   \* (
U_eacute == <<195, 169>>             \* U+00E9, two bytes
U_zhong  == <<228, 184, 173>>        \* U+4E2D, three bytes
U_comma  == <<239, 188, 140>>        \* U+FF0C, three bytes, PUNCTUATIONS[0]
U_emoji  == <<240, 159, 152, 128>>   \* U+1F600, four bytes
\* U+4E2D cut after two bytes: what fgets leaves when the buffer ends mid-character
U_cut    == <<228, 184>>

Units == {U_a, U_apos, U_eacute, U_zhong, U_comma}

RECURSIVE Flatten(_)
Flatten(us) == IF us = <<>> THEN <<>> ELSE Head(us) \o Flatten(Tail(us))

RECURSIVE Rep(_, _)
Rep(u, n) == IF n = 0 THEN <<>> ELSE u \o Rep(u, n - 1)

Long21 == Rep(U_zhong, 7)            \* 7 hanzi, 21 bytes
Long24 == Rep(U_zhong, 8)            \* 8 hanzi, 24 bytes

SpecialLines ==
    { Long24,
      Long21 \o U_a,
      U_lparen,
      U_a \o U_lparen \o U_a,
      U_lparen \o U_a \o U_lparen,
      U_cut,
      U_a \o U_cut,
      U_cut \o U_a,
      U_zhong \o U_cut,
      U_emoji,
      U_a \o U_emoji,
      U_emoji \o U_zhong,
      U_eacute \o U_zhong \o U_emoji,
      U_apos \o U_emoji \o U_apos,
      <<44, 32, 51, 97>>,                     \* ", 3a"
      <<44, 32, 51, 125, 44, 32, 123>> }      \* ", 3}, {"

Lines ==
    { Flatten(us) : us \in UNION { [1..n -> Units] : n \in 0..MaxUnits } }
        \cup SpecialLines

\* (dictionary, stopword list) pairs
Lexicon(d, s) == [d |-> d, s |-> s]

Lexicons ==
    { Lexicon(d, s) : d \in SUBSET {U_a, U_a \o U_a},
                      s \in {{}, {U_a}, {U_a \o U_a}} }
        \cup { Lexicon({U_zhong \o U_zhong, U_zhong \o U_zhong \o U_zhong}, {}),
               Lexicon({U_zhong, U_zhong \o U_zhong}, {U_zhong \o U_zhong}),
               Lexicon({}, {U_zhong, U_eacute}),
               Lexicon({U_a, U_a \o U_a}, {U_a \o U_a, U_eacute}),
               Lexicon({U_apos}, {}),
               Lexicon({U_comma}, {}),
               Lexicon({U_lparen, U_a \o U_lparen}, {}),
               Lexicon({U_a, U_a \o U_comma \o U_a}, {}),
               Lexicon({U_cut}, {}),
               Lexicon({Long21, Long24}, {}),
               Lexicon({Long21, Long24}, {Long21}),
               Lexicon({Long24}, {U_zhong}) }

FreqTokens == { U_a, U_zhong, U_a \o U_a }

-----------------------------------------------------------------------------
(* State machine: one call of segment_line_in_memory on an empty table *)

Init ==
    /\ line \in Lines
    /\ \E lx \in Lexicons : dict = lx.d /\ stopwords = lx.s
    /\ start = 0
    /\ pc = "loop"
    /\ seg_file = <<>>
    /\ g_word_counts = <<>>
    /\ g_word_capacity = 0
    /\ g_word_total = 0
    /\ g_word_count = 0
    /\ steps = <<>>
    /\ recorded = <<>>

\* fprintf + add_token_count when emit holds, nothing otherwise
Emit(emit, temp) ==
    IF emit
    THEN /\ seg_file' = fprintf_token(seg_file, temp)
         /\ SetTable(add_token_count(Table, temp))
         /\ recorded' = Append(recorded, temp)
    ELSE /\ UNCHANGED <<seg_file, recorded>>
         /\ KeepTable

Log(kind, to, emit, temp) ==
    steps' = Append(steps, [kind |-> kind, from |-> start, to |-> to,
                            emitted |-> emit, tok |-> temp])

\* lines 266-270: punctuation at the cursor
PunctStep ==
    /\ pc = "loop"
    /\ start < Len(line)
    /\ \E cp \in {check_punctuation(Suffix(line, start))} :
        /\ cp.ret = 1
        /\ start' = start + cp.len
        /\ Emit(FALSE, <<>>)
        /\ Log("punct", start + cp.len, FALSE, <<>>)
    /\ UNCHANGED <<line, dict, stopwords, pc>>

\* lines 272-293: the longest dictionary entry at the cursor
DictStep ==
    /\ pc = "loop"
    /\ start < Len(line)
    /\ check_punctuation(Suffix(line, start)).ret = 0
    /\ \E match_len \in {dict_match(line, start, dict)} :
        /\ match_len > 0
        /\ \E temp \in {strncpy(Suffix(line, start), match_len)} :
           \E emit \in {~is_stopword(temp, stopwords)} :
            /\ start' = start + match_len
            /\ Emit(emit, temp)
            /\ Log("dict", start + match_len, emit, temp)
    /\ UNCHANGED <<line, dict, stopwords, pc>>

\* lines 295-308: no dictionary entry matched, take one character
FallbackStep ==
    /\ pc = "loop"
    /\ start < Len(line)
    /\ check_punctuation(Suffix(line, start)).ret = 0
    /\ dict_match(line, start, dict) = 0
    /\ \E char_len \in {get_utf8_char_len(Suffix(line, start))} :
       \E temp \in {strncpy(Suffix(line, start), char_len)} :
       \E emit \in {/\ check_punctuation(temp).ret = 0
                    /\ ~is_stopword(temp, stopwords)} :
        /\ start' = start + char_len
        /\ Emit(emit, temp)
        /\ Log("fallback", start + char_len, emit, temp)
    /\ UNCHANGED <<line, dict, stopwords, pc>>

\* lines 264, 310: the loop condition fails, the line terminator is written
LoopExit ==
    /\ pc = "loop"
    /\ ~(start < Len(line))
    /\ seg_file' = Append(seg_file, 10)
    /\ pc' = "done"
    /\ KeepTable
    /\ UNCHANGED <<line, dict, stopwords, start, steps, recorded>>

Next == PunctStep \/ DictStep \/ FallbackStep \/ LoopExit

Spec == Init /\ [][Next]_vars

-----------------------------------------------------------------------------
(* Direct use of the frequency table: any sequence of add_token_count calls *)

InitFreq ==
    /\ line = <<>>
    /\ dict = {}
    /\ stopwords = {}
    /\ start = 0
    /\ pc = "freq"
    /\ seg_file = <<>>
    /\ g_word_counts = <<>>
    /\ g_word_capacity = 0
    /\ g_word_total = 0
    /\ g_word_count = 0
    /\ steps = <<>>
    /\ recorded = <<>>

RecordCall(token) ==
    /\ pc = "freq"
    /\ Len(recorded) < MaxRecords
    /\ SetTable(add_token_count(Table, token))
    /\ recorded' = Append(recorded, token)
    /\ UNCHANGED <<line, dict, stopwords, start, pc, seg_file, steps>>

NextFreq == \E token \in FreqTokens : RecordCall(token)

SpecFreq == InitFreq /\ [][NextFreq]_vars

-----------------------------------------------------------------------------
(* Vocabulary of the properties, stated independently of the code above *)

IsPrefix(p, s) == Len(p) <= Len(s) /\ SubSeq(s, 1, Len(p)) = p

\* p occurs somewhere in s
Occurs(p, s) == \E k \in 0..(Len(s) - Len(p)) : SubSeq(s, k + 1, k + Len(p)) = p

\* s begins with the full pattern of some punctuation-table entry
BeginsWithPattern(s) == \E k \in DOMAIN PUNCTUATIONS : IsPrefix(PUNCTUATIONS[k].punct, s)

\* the bytes of l in [from, to), clipped to the line
Slice(l, from, to) == SubSeq(l, from + 1, Min(to, Len(l)))

\* the byte lengths L in 1..21 for which l[s, s+L) is a dictionary entry
Candidates(l, s, d) ==
    { L \in 1..21 : s + L <= Len(l) /\ SubSeq(l, s + 1, s + L) \in d }

MaxOf(S) == CHOOSE x \in S : \A y \in S : y <= x

CountIn(seq, t) == Cardinality({ i \in DOMAIN seq : seq[i] = t })

\* UTF-8 proper: the length a lead byte announces (0: not a lead byte)
CpLen(b) ==
    IF b < 128 THEN 1
    ELSE IF b >= 192 /\ b <= 223 THEN 2
    ELSE IF b >= 224 /\ b <= 239 THEN 3
    ELSE IF b >= 240 /\ b <= 247 THEN 4
    ELSE 0

IsCont(b) == b >= 128 /\ b <= 191

\* the offsets at which a codepoint of s starts, and Len(s); -1 marks ill-formed input
RECURSIVE Starts(_, _)
Starts(s, pos) ==
    IF pos >= Len(s) THEN {pos}
    ELSE LET n == CpLen(s[pos + 1]) IN
         IF \/ n = 0
            \/ pos + n > Len(s)
            \/ \E k \in 2..n : ~IsCont(s[pos + k])
         THEN {-1}
         ELSE {pos} \cup Starts(s, pos + n)

Boundaries(s) == Starts(s, 0)

WellFormedUtf8(s) == -1 \notin Boundaries(s)

\* well-formed and made of codepoints of one to three bytes
UpToThreeBytes(s) == WellFormedUtf8(s) /\ \A i \in DOMAIN s : s[i] < 240

\* what the emitting iterations must have written to seg_file
RECURSIVE Render(_)
Render(st) ==
    IF st = <<>> THEN <<>>
    ELSE (IF Head(st).emitted THEN <<91>> \o Head(st).tok \o <<93>> ELSE <<>>)
            \o Render(Tail(st))

RECURSIVE EmittedToks(_)
EmittedToks(st) ==
    IF st = <<>> THEN <<>>
    ELSE (IF Head(st).emitted THEN <<Head(st).tok>> ELSE <<>>) \o EmittedToks(Tail(st))

\* the iterations logged as emitting are exactly what reached the output and the table
OutputAgrees ==
    /\ seg_file = Render(steps) \o (IF pc = "done" THEN <<10>> ELSE <<>>)
    /\ recorded = EmittedToks(steps)
    /\ g_word_count = Len(recorded)
    /\ \A i \in DOMAIN g_word_counts :
            g_word_counts[i].count = CountIn(recorded, g_word_counts[i].word)
    /\ \A i \in DOMAIN recorded :
            \E j \in DOMAIN g_word_counts : g_word_counts[j].word = recorded[i]
    /\ (steps # <<>> => steps[Len(steps)].to = start)
    /\ (steps = <<>> => start = 0)

PunctFailsAt(pos) == check_punctuation(Suffix(line, pos)).ret = 0

-----------------------------------------------------------------------------
\* C1 (Coverage): the consumed spans are contiguous, start at 0 and never
\* reach past the end of the line, and the cursor equals the line's byte
\* length when the loop has ended.  Stated here for the well-formed UTF-8
\* lines only, a part of "every input line".
C1_Coverage ==
    WellFormedUtf8(line) =>
        /\ \A i \in DOMAIN steps :
                steps[i].from < steps[i].to /\ steps[i].to <= Len(line)
        /\ (steps # <<>> => steps[1].from = 0)
        /\ \A i \in 1..(Len(steps) - 1) : steps[i + 1].from = steps[i].to
        /\ start <= Len(line)
        /\ (pc = "done" => start = Len(line))

\* C2 (Punctuation priority): whenever the cursor stands at an occurrence of
\* a punctuation-table pattern, the iteration emits nothing and the pattern
\* is not taken as a dictionary token, whatever the dictionary holds.
C2_PunctuationPriority ==
    \A i \in DOMAIN steps :
        BeginsWithPattern(Suffix(line, steps[i].from)) =>
            steps[i].kind # "dict" /\ ~steps[i].emitted

\* C3 (Longest match): at a cursor position where the punctuation check
\* fails and some substring of 1..21 bytes is a dictionary entry, the
\* iteration consumes exactly the longest such substring and emits it iff it
\* is not a stopword.
C3_LongestMatch ==
    /\ OutputAgrees
    /\ \A i \in DOMAIN steps :
        LET st == steps[i] IN
        \A c \in {Candidates(line, st.from, dict)} :
            (c # {} /\ PunctFailsAt(st.from)) =>
                \A L \in {MaxOf(c)} :
                    /\ st.kind = "dict"
                    /\ st.to = st.from + L
                    /\ st.tok = SubSeq(line, st.from + 1, st.from + L)
                    /\ (st.emitted <=> st.tok \notin stopwords)

\* the example of the claim: dictionary {XX, XXX}, input XXX, one token XXX
C3_Witness ==
    /\ pc = "done"
    /\ line = U_zhong \o U_zhong \o U_zhong
    /\ dict = {U_zhong \o U_zhong, U_zhong \o U_zhong \o U_zhong}
    /\ Cardinality(Candidates(line, 0, dict)) = 2
    /\ Len(steps) = 1
    /\ seg_file = <<91>> \o line \o <<93, 10>>

\* C4 (Stopword suppression): no stopword is emitted, written or recorded,
\* and when the longest dictionary match at the cursor is a stopword the
\* cursor still advances by its full length without emitting.
C4_StopwordSuppression ==
    /\ OutputAgrees
    /\ \A i \in DOMAIN steps : steps[i].emitted => steps[i].tok \notin stopwords
    /\ \A i \in DOMAIN recorded : recorded[i] \notin stopwords
    /\ \A i \in DOMAIN g_word_counts : g_word_counts[i].word \notin stopwords
    /\ \A w \in stopwords : ~Occurs(<<91>> \o w \o <<93>>, seg_file)
    /\ \A i \in DOMAIN steps :
        LET st == steps[i] IN
        \A c \in {Candidates(line, st.from, dict)} :
            (c # {} /\ PunctFailsAt(st.from)) =>
                \A L \in {MaxOf(c)} :
                    SubSeq(line, st.from + 1, st.from + L) \in stopwords =>
                        /\ ~st.emitted
                        /\ st.to = st.from + L

\* a stopword was the longest match while a shorter entry also matched, and a
\* stopword was dropped on the fallback path
C4_Witness ==
    /\ pc = "done"
    /\ \E i \in DOMAIN steps :
        /\ steps[i].kind = "dict"
        /\ ~steps[i].emitted
        /\ Cardinality(Candidates(line, steps[i].from, dict)) >= 2
        /\ steps[i].to - steps[i].from = 2
    /\ \E i \in DOMAIN steps :
        /\ steps[i].kind = "fallback"
        /\ ~steps[i].emitted
        /\ steps[i].tok \in stopwords

\* C5 (Progress): every iteration increases the cursor by at least one byte
\* on each of the three paths, and there are never more iterations than the
\* line has bytes.
C5_Progress ==
    /\ \A i \in DOMAIN steps : steps[i].to >= steps[i].from + 1
    /\ \A i \in 1..(Len(steps) - 1) : steps[i + 1].from = steps[i].to
    /\ (steps # <<>> => steps[1].from = 0 /\ steps[Len(steps)].to = start)
    /\ (steps = <<>> => start = 0)
    /\ Len(steps) <= Len(line)

\* a finished line on which all three paths were taken
C5_Witness ==
    /\ pc = "done"
    /\ line # <<>>
    /\ \E i, j, k \in DOMAIN steps :
        /\ steps[i].kind = "punct"
        /\ steps[j].kind = "dict"
        /\ steps[k].kind = "fallback"

RECURSIVE SumCounts(_)
SumCounts(counts) ==
    IF counts = <<>> THEN 0 ELSE Head(counts).count + SumCounts(Tail(counts))

C7_PunctuationClassifier ==
    \A pos \in 0..Len(line) :
        LET str == Suffix(line, pos)
            r   == check_punctuation(str)
        IN  /\ (r.ret = 1 <=> BeginsWithPattern(str))
            /\ (r.ret = 1 =>
                    /\ \E k \in DOMAIN PUNCTUATIONS :
                            /\ IsPrefix(PUNCTUATIONS[k].punct, str)
                            /\ r.len = Len(PUNCTUATIONS[k].punct)
                    /\ r.len <= Len(str))
            /\ (r.ret = 0 => r.len = 0)

\* every emitted token starts and ends on a codepoint boundary of the line
TokensAligned ==
    \A i \in DOMAIN steps :
        steps[i].emitted =>
            /\ steps[i].from \in Boundaries(line)
            /\ steps[i].from + Len(steps[i].tok) \in Boundaries(line)

\* C8 as claimed (Token alignment): for any input line every emitted token
\* begins and ends on a codepoint boundary.  Stated here for well-formed
\* UTF-8 lines and dictionaries only, a part of "any input line".
C8_AlignedAnyLine ==
    (WellFormedUtf8(line) /\ \A w \in dict : WellFormedUtf8(w)) => TokensAligned

\* C8 amended: for a well-formed line whose codepoints take at most three
\* bytes, and a dictionary of well-formed entries, every emitted token begins
\* and ends on a codepoint boundary.
C8_AlignedUpToThreeBytes ==
    (UpToThreeBytes(line) /\ \A w \in dict : WellFormedUtf8(w)) => TokensAligned

\* a finished line with emitted two- and three-byte characters
C8_Witness ==
    /\ pc = "done"
    /\ UpToThreeBytes(line)
    /\ \A w \in dict : WellFormedUtf8(w)
    /\ \E i, j \in DOMAIN steps :
        /\ steps[i].emitted /\ steps[i].kind = "fallback" /\ Len(steps[i].tok) = 2
        /\ steps[j].emitted /\ Len(steps[j].tok) >= 3

\* C9 (Token never spans punctuation): every emitted token has 1 to 21 bytes
\* and contains no occurrence of a punctuation pattern anywhere inside it.
\* Stated here for the table entries whose declared length is the length of
\* their pattern only, a part of "any punctuation-table pattern".
C9_NoPunctuationInside ==
    \A i \in DOMAIN steps :
        steps[i].emitted =>
            /\ Len(steps[i].tok) >= 1
            /\ Len(steps[i].tok) <= 21
            /\ \A k \in DOMAIN PUNCTUATIONS :
                Len(PUNCTUATIONS[k].punct) = PUNCTUATIONS[k].bytes =>
                    ~Occurs(PUNCTUATIONS[k].punct, steps[i].tok)

\* the length the claim gives for a lead byte
LeadLen(b) ==
    IF b < 128 THEN 1
    ELSE IF b >= 192 /\ b <= 223 THEN 2
    ELSE IF b >= 224 /\ b <= 239 THEN 3
    ELSE 1

====
